---- MODULE Spec2Model ----
(***************************************************************************)
(* Model of the WhatsApp stock-alert service: the session classifier, the  *)
(* file-backed subscriber store, the inbound webhook with its background   *)
(* ad-hoc worker, the scheduled alert job, the manual trigger and the      *)
(* broadcast loop (app.py, subscriber_store.py, whatsapp_service.py).      *)
(*                                                                         *)
(* Strings that the code transforms (addresses, message bodies) are        *)
(* sequences of one-character strings, so that replace / strip / lower /   *)
(* startswith are computed as Python computes them.                        *)
(***************************************************************************)
EXTENDS Integers, Sequences, FiniteSets, TLC

VARIABLES
    dt,         \* SpecSession: the timestamp handed to market_session
    phase,      \* SpecSession: what market_session returned ("unset" before)
    clock,      \* index into SampleTimes of the latest now_ist() reading
    storeFile,  \* the subscribers file: [valid, subs]
    req,        \* the webhook handler: its locals and position in the current
                \* (or last) inbound request
    worker,     \* per ad-hoc thread: its locals and position in handle_adhoc
    job,        \* the thread in a dispatch: the scheduler's run_scheduled_alert
                \* or a request's trigger_alert
    render,     \* SpecFormat: one formatter call, its arguments and result
    _lock,      \* SpecStore: the thread inside `with self._lock`, 0 when free
    caller,     \* SpecStore: per thread, its position in one store call and
                \* that call's locals
    file0       \* SpecStore: the file when the calls were issued

vars == <<dt, phase, clock, storeFile, req, worker, job, render, _lock, caller, file0>>

(***************************************************************************)
(* Bounds                                                                  *)
(***************************************************************************)
\* inbound webhook requests handled in one behaviour
MaxRequests == 2
\* picks in a generated report
MaxPicks == 4
\* of these, the requests that are no command and so start an ad-hoc thread
MaxAdhoc == 1

(***************************************************************************)
(* Strings                                                                 *)
(***************************************************************************)
WA == <<"w", "h", "a", "t", "s", "a", "p", "p", ":">>

\* s.startswith(p)
StartsWith(s, p) == Len(s) >= Len(p) /\ SubSeq(s, 1, Len(p)) = p

\* s.replace("whatsapp:", ""): every non-overlapping occurrence, left to right
RECURSIVE ReplaceWA(_)
ReplaceWA(s) ==
    IF s = <<>> THEN <<>>
    ELSE IF StartsWith(s, WA)
         THEN ReplaceWA(SubSeq(s, Len(WA) + 1, Len(s)))
         ELSE <<Head(s)>> \o ReplaceWA(Tail(s))

RECURSIVE LStrip(_)
LStrip(s) == IF s # <<>> /\ Head(s) = " " THEN LStrip(Tail(s)) ELSE s

RECURSIVE RStrip(_)
RStrip(s) ==
    IF s # <<>> /\ s[Len(s)] = " " THEN RStrip(SubSeq(s, 1, Len(s) - 1)) ELSE s

\* s.strip()
Strip(s) == RStrip(LStrip(s))

UpperCs == <<"A", "B", "C", "D", "E", "F", "G", "H", "I", "J", "K", "L", "M",
             "N", "O", "P", "Q", "R", "S", "T", "U", "V", "W", "X", "Y", "Z">>
LowerCs == <<"a", "b", "c", "d", "e", "f", "g", "h", "i", "j", "k", "l", "m",
             "n", "o", "p", "q", "r", "s", "t", "u", "v", "w", "x", "y", "z">>

LowerChar(c) ==
    IF \E i \in 1..Len(UpperCs) : UpperCs[i] = c
    THEN LowerCs[CHOOSE i \in 1..Len(UpperCs) : UpperCs[i] = c]
    ELSE c

\* s.lower()
Lower(s) == [i \in 1..Len(s) |-> LowerChar(s[i])]

\* x in s, for a list s
InList(x, s) == \E i \in 1..Len(s) : s[i] = x

\* [e for e in s if e != x]
RECURSIVE Without(_, _)
Without(s, x) ==
    IF s = <<>> THEN <<>>
    ELSE IF Head(s) = x THEN Without(Tail(s), x)
         ELSE <<Head(s)>> \o Without(Tail(s), x)

(***************************************************************************)
(* Session classifier (app.py market_session)                              *)
(***************************************************************************)
\* a timestamp is <<weekday, hour, minute>>, weekday 0 = Monday .. 6 = Sunday
Weekdays == 0..6
Hours == 0..23
Minutes == 0..59
AllTimes == Weekdays \X Hours \X Minutes

market_session_lt(t) ==
    IF t[1] >= 5 THEN "weekend"
    ELSE LET mins == t[2] * 60 + t[3] IN
         IF mins < 9 * 60 + 15 THEN "pre_open"
         ELSE IF mins < 15 * 60 + 30 THEN "market"
         ELSE IF mins <= 18 * 60 THEN "post_close"
         ELSE "night"

market_session(t) ==
    IF t[1] >= 5 THEN "weekend"
    ELSE LET mins == t[2] * 60 + t[3] IN
         IF mins < 9 * 60 + 15 THEN "pre_open"
         ELSE IF mins <= 15 * 60 + 30 THEN "market"
         ELSE IF mins <= 18 * 60 THEN "post_close"
         ELSE "night"

(***************************************************************************)
(* Clock (app.py now_ist)                                                  *)
(***************************************************************************)
\* the instants the clock is read at, in time order: a Monday before the open,
\* on both sides of the close and at night, and a Saturday
SampleTimes == << <<0, 9, 14>>, <<0, 15, 30>>, <<0, 15, 31>>, <<0, 18, 1>>,
                  <<5, 12, 0>> >>

\* now_ist(): a reading never earlier than the previous one
NowReadings == clock..Len(SampleTimes)

(***************************************************************************)
(* Subscriber store (subscriber_store.py).  Every public operation runs    *)
(* under self._lock, so each is one atomic step on the file.               *)
(*   rf: this call's open/json.load raises (a transient fault)             *)
(*   wf: "ok", "open" (open(..., "w") raises, file untouched) or "dump"    *)
(*       (the file was truncated by open and json.dump raises)             *)
(***************************************************************************)
WriteOutcomes == {"ok", "open", "dump"}

EmptyFile == [valid |-> TRUE, subs |-> <<>>]

\* SubscriberStore._read: the list, or [] when reading raises
_read(file, rf) == IF rf \/ ~file.valid THEN <<>> ELSE file.subs

\* SubscriberStore._write: the file afterwards and whether the call raised
_write(file, data, wf) ==
    CASE wf = "ok"   -> [file |-> [valid |-> TRUE, subs |-> data], raised |-> FALSE]
      [] wf = "open" -> [file |-> file, raised |-> TRUE]
      [] wf = "dump" -> [file |-> [valid |-> FALSE, subs |-> <<>>], raised |-> TRUE]

add_nocheck(file, number, rf, wf) ==
    LET subs == _read(file, rf)
        n    == ReplaceWA(number)
    IN  _write(file, Append(subs, n), wf)

\* SubscriberStore.add
add(file, number, rf, wf) ==
    LET subs == _read(file, rf)
        n    == ReplaceWA(number)
    IN  IF ~InList(n, subs)
        THEN _write(file, Append(subs, n), wf)
        ELSE [file |-> file, raised |-> FALSE]

\* SubscriberStore.remove
remove(file, number, rf, wf) ==
    LET n    == ReplaceWA(number)
        subs == Without(_read(file, rf), n)
    IN  _write(file, subs, wf)

\* SubscriberStore.get_all
get_all(file, rf) == _read(file, rf)

(***************************************************************************)
(* Delivery transport (whatsapp_service.py)                                *)
(***************************************************************************)
\* WhatsAppService.send_message: the destination the transport is called with
send_to(to_number) ==
    IF StartsWith(to_number, WA) THEN to_number ELSE WA \o to_number

(***************************************************************************)
(* Inbound requests: what Twilio (or anyone) may post to /webhook/whatsapp *)
(***************************************************************************)
Addr1 == <<"+", "1">>
Addr2 == <<"+", "2">>

\* the From field: absent, only the prefix, bare, with the channel prefix,
\* and padded
Froms == { <<>>,
           WA,
           Addr1,
           WA \o Addr1,
           WA \o Addr2,
           <<" ">> \o WA \o <<" ">> \o Addr2 \o <<" ">> }

\* the Body field
Bodies == { <<"h", "i">>,
            <<" ", "H", "i", " ">>,
            <<"H", "E", "L", "L", "O">>,
            <<"h", "e", "y">>,
            <<"s", "t", "a", "r", "t">>,
            <<"S", "u", "b", "s", "c", "r", "i", "b", "e">>,
            <<"s", "t", "o", "p">>,
            <<"S", "T", "O", "P", " ">>,
            <<"u", "n", "s", "u", "b", "s", "c", "r", "i", "b", "e">>,
            <<"h", "e", "l", "p">>,
            <<"H", "e", "l", "p">>,
            <<"w", "h", "a", "t", "s", " ", "h", "o", "t">>,
            <<"p", "i", "c", "k", "s">>,
            <<"s", "t", "o", "p", " ", "i", "t">>,
            <<"h", "i", "!">>,
            <<>> }

SubscribeCmds == { <<"s", "t", "a", "r", "t">>,
                   <<"s", "u", "b", "s", "c", "r", "i", "b", "e">>,
                   <<"h", "i">>,
                   <<"h", "e", "l", "l", "o">>,
                   <<"h", "e", "y">> }
StopCmds == { <<"s", "t", "o", "p">>,
              <<"u", "n", "s", "u", "b", "s", "c", "r", "i", "b", "e">> }
HelpCmd == <<"h", "e", "l", "p">>

\* whatsapp_webhook: request.form.get("From", "").replace("whatsapp:", "").strip()
from_number_of(From) == Strip(ReplaceWA(From))

\* whatsapp_webhook: cmd = body.strip().lower()
cmd_of(Body) == Lower(Strip(Body))

branch_of_nohey(cmd) ==
    IF cmd \in SubscribeCmds \ {<<"h", "e", "y">>} THEN "subscribe"
    ELSE IF cmd \in StopCmds THEN "stop"
    ELSE IF cmd = HelpCmd THEN "help"
    ELSE "adhoc"

\* whatsapp_webhook: the branch of the if / elif chain that cmd selects
branch_of(cmd) ==
    IF cmd \in SubscribeCmds THEN "subscribe"
    ELSE IF cmd \in StopCmds THEN "stop"
    ELSE IF cmd = HelpCmd THEN "help"
    ELSE "adhoc"

\* whatsapp_webhook: the wait_msg table with its .get default
wait_msg(session) ==
    CASE session = "market"     -> "wait_market"
      [] session = "pre_open"   -> "wait_pre_open"
      [] session = "post_close" -> "wait_post_close"
      [] session = "night"      -> "wait_night"
      [] session = "weekend"    -> "wait_weekend"
      [] OTHER                  -> "wait_default"

\* whatsapp_webhook: the text each branch sends
reply_text(branch, session) ==
    CASE branch = "subscribe" -> "onboarding"
      [] branch = "stop"      -> "unsubscribed"
      [] branch = "help"      -> "help"
      [] OTHER                -> wait_msg(session)

Workers == 1..MaxAdhoc

IdleReq == [pc |-> "idle", n |-> 0, w |-> 0, from |-> <<>>, branch |-> "none", t |-> 0,
            session |-> "none", had |-> FALSE, rf |-> FALSE, raised |-> FALSE,
            sends |-> 0,
            delivered |-> 0, text |-> "none", to |-> <<>>]

NoWorker == [pc |-> "none", from |-> <<>>, t |-> 0, session |-> "none",
             gen |-> "none", arg |-> 0, genCalls |-> 0, outcome |-> "none",
             reply |-> "none", sends |-> 0, delivered |-> 0, to |-> <<>>,
             escaped |-> FALSE]

\* what lines 230-232 and the routing make of the From and Body fields received
FromNumbers == {from_number_of(From) : From \in Froms}
Branches == {branch_of(cmd_of(Body)) : Body \in Bodies}

\* the ad-hoc threads started so far
AdhocStarted == Cardinality({w \in Workers : worker[w].pc # "none"})

\* whatsapp_webhook, lines 226-240: a GET, or a POST without a sender, answers
\* at once; otherwise the locals are set and the command is routed (the clock
\* reading and session of lines 233-234 are kept where they are used, in the
\* branch of a message that is no command); n counts the requests received
WebhookReceive ==
    /\ req.pc \in {"idle", "done"}
    /\ req.n < MaxRequests
    /\ \E method \in {"GET", "POST"} :
         IF method = "GET"
         THEN /\ req' = [IdleReq EXCEPT !.pc = "done", !.n = req.n + 1]
              /\ UNCHANGED clock
         ELSE \E from_number \in FromNumbers, branch \in Branches, k \in NowReadings :
              LET session == market_session(SampleTimes[k])
              IN  /\ from_number # <<>> /\ branch = "adhoc" => AdhocStarted < MaxAdhoc
                  /\ clock' = k
                  /\ req' = IF from_number = <<>>
                            THEN [IdleReq EXCEPT !.pc = "done", !.n = req.n + 1]
                            ELSE [IdleReq EXCEPT
                                    !.pc = IF branch = "help" THEN "send" ELSE "store",
                                    !.n = req.n + 1,
                                    !.from = from_number,
                                    !.branch = branch,
                                    !.t = IF branch = "adhoc" THEN k ELSE 0,
                                    !.session = IF branch = "adhoc" THEN session
                                                ELSE "none"]
    /\ UNCHANGED <<_lock, caller, file0, render, dt, phase, storeFile, worker, job>>

\* whatsapp_webhook, lines 244 / 269 / 295: subscribers.add or .remove; an
\* exception leaves the branch for the catch-all at line 314.  had and rf record
\* for the properties, until the next step of the handler, whether the sender
\* was in the file and whether this call's read failed.
WebhookStore ==
    /\ req.pc = "store"
    /\ \E rf \in BOOLEAN, wf \in WriteOutcomes :
         LET res == IF req.branch = "stop"
                    THEN remove(storeFile, req.from, rf, wf)
                    ELSE add(storeFile, req.from, rf, wf)
         IN  /\ storeFile' = res.file
             /\ req' = [req EXCEPT !.pc = IF res.raised THEN "return" ELSE "send",
                                   !.had = InList(ReplaceWA(req.from),
                                                  _read(storeFile, FALSE)),
                                   !.rf = rf,
                                   !.raised = res.raised]
    /\ UNCHANGED <<_lock, caller, file0, render, dt, phase, clock, worker, job>>

\* whatsapp_webhook, lines 263-266 / 270-274 / 288-291 / 306-309: one
\* whatsapp.send_message(from_number, text) whose exception is logged
WebhookSend ==
    /\ req.pc = "send"
    /\ \E ok \in BOOLEAN :
         req' = [req EXCEPT !.pc = IF req.branch = "adhoc" THEN "spawn" ELSE "return",
                            !.had = FALSE,
                            !.rf = FALSE,
                            !.sends = @ + 1,
                            !.delivered = IF ok THEN @ + 1 ELSE @,
                            !.text = reply_text(req.branch, req.session),
                            !.to = send_to(req.from)]
    /\ UNCHANGED <<_lock, caller, file0, render, dt, phase, clock, storeFile, worker, job>>

\* _spawn_adhoc: start the daemon thread and go on; w names the thread started
_spawn_adhoc ==
    /\ req.pc = "spawn"
    /\ worker' = [worker EXCEPT ![AdhocStarted + 1] =
                     [NoWorker EXCEPT !.pc = "start", !.from = req.from]]
    /\ req' = [req EXCEPT !.pc = "return", !.w = AdhocStarted + 1]
    /\ UNCHANGED <<_lock, caller, file0, render, dt, phase, clock, storeFile, job>>

WebhookReturn_join ==
    /\ req.pc = "return"
    /\ req.w # 0 => worker[req.w].pc \in {"done", "exited"}
    /\ req' = [req EXCEPT !.pc = "done"]
    /\ UNCHANGED <<_lock, caller, file0, render, dt, phase, clock, storeFile, worker, job>>

\* whatsapp_webhook, line 318: return TWIML_OK; the handler's locals end here
WebhookReturn ==
    /\ req.pc = "return"
    /\ req' = [IdleReq EXCEPT !.pc = "done", !.n = req.n, !.w = req.w]
    /\ UNCHANGED <<_lock, caller, file0, render, dt, phase, clock, storeFile, worker, job>>

(***************************************************************************)
(* Report generation (stock_analyzer.py) and formatting, as far as the     *)
(* dispatch logic depends on them: a generator call returns a report,      *)
(* returns JSON that is not a report object (the formatter then raises on  *)
(* report.get), or raises.                                                 *)
(***************************************************************************)
GenOutcomes == {"report", "malformed", "raise"}

adhoc_dispatch_nightonly(session, hour) ==
    IF session = "market"
    THEN [gen |-> "generate_adhoc_report", arg |-> hour, fmt |-> "adhoc"]
    ELSE IF session = "pre_open"
    THEN [gen |-> "generate_pre_open_report", arg |-> 0, fmt |-> "pre_open"]
    ELSE IF session = "night"
    THEN [gen |-> "generate_next_day_report", arg |-> 0, fmt |-> "night"]
    ELSE [gen |-> "generate_weekend_report", arg |-> 0, fmt |-> "weekend"]

\* handle_adhoc, lines 190-201: the generator and formatter a session selects
adhoc_dispatch(session, hour) ==
    IF session = "market"
    THEN [gen |-> "generate_adhoc_report", arg |-> hour, fmt |-> "adhoc"]
    ELSE IF session = "pre_open"
    THEN [gen |-> "generate_pre_open_report", arg |-> 0, fmt |-> "pre_open"]
    ELSE IF session \in {"night", "post_close"}
    THEN [gen |-> "generate_next_day_report", arg |-> 0, fmt |-> "night"]
    ELSE [gen |-> "generate_weekend_report", arg |-> 0, fmt |-> "weekend"]

\* handle_adhoc, lines 189-208: the reply once the generator call is over
adhoc_reply(fmt, outcome) ==
    IF outcome = "report" THEN fmt ELSE "apology"

adhoc_send_unguarded(w, ok) ==
    [w EXCEPT !.pc = "done", !.sends = @ + 1,
              !.delivered = IF ok THEN @ + 1 ELSE @,
              !.to = send_to(w.from),
              !.escaped = ~ok]

\* handle_adhoc, lines 210-213: the single guarded send
adhoc_send(w, ok) ==
    [w EXCEPT !.pc = "done", !.sends = @ + 1,
              !.delivered = IF ok THEN @ + 1 ELSE @,
              !.to = send_to(w.from)]

\* handle_adhoc, lines 185-191: the thread reads the clock itself, classifies
\* the session and enters the generator call
AdhocStart(r) ==
    /\ worker[r].pc = "start"
    /\ \E k \in NowReadings :
         LET session == market_session(SampleTimes[k])
             d       == adhoc_dispatch(session, SampleTimes[k][2])
         IN  /\ clock' = k
             /\ worker' = [worker EXCEPT ![r].pc = "gen",
                                         ![r].t = k,
                                         ![r].session = session,
                                         ![r].gen = d.gen,
                                         ![r].arg = d.arg,
                                         ![r].genCalls = @ + 1]
    /\ UNCHANGED <<_lock, caller, file0, render, dt, phase, storeFile, req, job>>

\* handle_adhoc, lines 189-208: the generator call ends and the reply is built;
\* dt, session and report are not used after this point (gen and arg name the
\* call in progress)
AdhocGenerate(r) ==
    /\ worker[r].pc = "gen"
    /\ \E outcome \in GenOutcomes :
         worker' = [worker EXCEPT
                      ![r].pc = "send",
                      ![r].t = 0,
                      ![r].session = "none",
                      ![r].gen = "none",
                      ![r].arg = 0,
                      ![r].outcome = outcome,
                      ![r].reply = adhoc_reply(
                          adhoc_dispatch(worker[r].session,
                                         SampleTimes[worker[r].t][2]).fmt,
                          outcome)]
    /\ UNCHANGED <<_lock, caller, file0, render, dt, phase, clock, storeFile, req, job>>

\* handle_adhoc, lines 210-213
AdhocSend(r) ==
    /\ worker[r].pc = "send"
    /\ \E ok \in BOOLEAN : worker' = [worker EXCEPT ![r] = adhoc_send(@, ok)]
    /\ UNCHANGED <<_lock, caller, file0, render, dt, phase, clock, storeFile, req, job>>

\* handle_adhoc returns and the daemon thread ends, its locals with it
AdhocExit(r) ==
    /\ worker[r].pc = "done"
    /\ worker' = [worker EXCEPT ![r] = [NoWorker EXCEPT !.pc = "exited"]]
    /\ UNCHANGED <<_lock, caller, file0, render, dt, phase, clock, storeFile, req, job>>

(***************************************************************************)
(* Message formatters (app.py _fmt_stock, _build, format_*_message).  A    *)
(* dict is a function whose DOMAIN holds the keys present; a JSON value    *)
(* that may or may not be an object is [dict, fields].  A field value is   *)
(* the number of characters str() gives it.  A text is the sequence of the *)
(* pieces it was assembled from, each with its length, so that len, the    *)
(* slice [:n] and "is a prefix of" are computed.                           *)
(***************************************************************************)
\* _build, line 148: msg[:1590]
MaxMsgLen == 1590
\* _build, line 143: stocks[:3]
MaxBlocks == 3
\* strftime("%d %b %I:%M %p"), line 151: "04 Nov 04:41 PM"
StampLen == 15

\* dict.get(key, default)
Get(d, key, default) == IF key \in DOMAIN d THEN d[key] ELSE default

Min(a, b) == IF a <= b THEN a ELSE b

\* len(text)
RECURSIVE TextLen(_)
TextLen(text) ==
    IF text = <<>> THEN 0 ELSE Head(text).len + TextLen(Tail(text))

\* text[:n]
RECURSIVE Slice(_, _)
Slice(text, n) ==
    IF text = <<>> \/ n <= 0 THEN <<>>
    ELSE IF Head(text).len <= n
    THEN <<Head(text)>> \o Slice(Tail(text), n - Head(text).len)
    ELSE <<[Head(text) EXCEPT !.len = n]>>

\* len(str(i)) of a block number
Digits(i) == IF i < 10 THEN 1 ELSE 2

\* len("\n".join(lines)) for lines given by their lengths
RECURSIVE JoinLen(_)
JoinLen(lines) ==
    IF lines = <<>> THEN 0
    ELSE IF Len(lines) = 1 THEN lines[1]
    ELSE Head(lines) + 1 + JoinLen(Tail(lines))

\* _fmt_stock, lines 128-138: the block of pick s, numbered i; s.get raises
\* when s is no JSON object
_fmt_stock(i, s, show_hold) ==
    LET f  == s.fields
        l1 == Digits(i) + 2 + Get(f, "symbol", 1) + 2 + Get(f, "exchange", 3) + 1
        l2 == 10 + Get(f, "entry_low", 1) + 4 + Get(f, "entry_high", 1)
        l3 == 10 + Get(f, "target", 1)
        l4 == 10 + Get(f, "stop_loss", 1)
        l5 == 9 + Get(f, "holding_period", 8)
        lines == IF show_hold THEN <<l1, l2, l3, l4, l5>> ELSE <<l1, l2, l3, l4>>
    IN  [raised |-> ~s.dict,
         piece  |-> [part |-> "block", i |-> i, src |-> s, hold |-> show_hold,
                     len |-> JoinLen(lines)]]

\* _build, lines 142-147: the message before the truncation: the header, then
\* "\n" + block for each of the first picks, then "\n" + note, joined by "\n"
_build_full(header, stocks, show_hold, note) ==
    LET k      == Min(Len(stocks), MaxBlocks)
        blocks == [j \in 1..k |-> _fmt_stock(j, stocks[j], show_hold)]
        sep(p) == [p EXCEPT !.len = @ + 2]
    IN  [raised |-> \E j \in 1..k : blocks[j].raised,
         text   |-> <<header>>
                    \o [j \in 1..k |-> sep(blocks[j].piece)]
                    \o (IF note.len > 0 THEN <<sep(note)>> ELSE <<>>)]

_build_noslice(header, stocks, show_hold, note) ==
    LET m == _build_full(header, stocks, show_hold, note)
    IN  IF m.raised THEN [raised |-> TRUE, text |-> <<>>, full |-> <<>>]
        ELSE [raised |-> FALSE, text |-> m.text, full |-> m.text]

\* _build, lines 140-148; full is msg before the slice of line 148
_build(header, stocks, show_hold, note) ==
    LET m == _build_full(header, stocks, show_hold, note)
    IN  IF m.raised THEN [raised |-> TRUE, text |-> <<>>, full |-> <<>>]
        ELSE [raised |-> FALSE, text |-> Slice(m.text, MaxMsgLen), full |-> m.text]

\* f"{title} | {dt} IST"
Header(title, titleLen) ==
    [part |-> "header", i |-> 0, src |-> title, hold |-> FALSE,
     len |-> titleLen + 3 + StampLen + 4]

\* note="" of _build, and the notes of lines 163 and 169
NoNote == [part |-> "note", i |-> 0, src |-> "none", hold |-> FALSE, len |-> 0]

Note(name, prefixLen, report) ==
    [part |-> "note", i |-> 0, src |-> name, hold |-> FALSE,
     len |-> prefixLen + Get(report, "nifty_open_estimate", 3)]

\* SLOT_LABELS, lines 54-63: the label of each slot and its length
SLOT_LABELS ==
    [hm \in {<<9, 20>>, <<10, 0>>, <<11, 0>>, <<12, 0>>,
             <<13, 0>>, <<14, 0>>, <<14, 30>>, <<15, 0>>} |->
        CASE hm = <<9, 20>>  -> [text |-> "MARKET OPEN", len |-> 13]
          [] hm = <<10, 0>>  -> [text |-> "10 AM UPDATE", len |-> 14]
          [] hm = <<11, 0>>  -> [text |-> "11 AM UPDATE", len |-> 14]
          [] hm = <<12, 0>>  -> [text |-> "NOON UPDATE", len |-> 14]
          [] hm = <<13, 0>>  -> [text |-> "1 PM UPDATE", len |-> 13]
          [] hm = <<14, 0>>  -> [text |-> "2 PM UPDATE", len |-> 13]
          [] hm = <<14, 30>> -> [text |-> "2:30 PM UPDATE", len |-> 16]
          [] hm = <<15, 0>>  -> [text |-> "CLOSING UPDATE", len |-> 16]]

format_scheduled_message_hold(report, label, mode) ==
    _build(Header(label.text, label.len), Get(report, "stocks", <<>>), TRUE, NoNote)

\* format_scheduled_message, lines 150-153
format_scheduled_message(report, label, mode) ==
    _build(Header(label.text, label.len), Get(report, "stocks", <<>>),
           mode # "intraday", NoNote)

\* format_adhoc_message, lines 155-158
format_adhoc_message(report) ==
    _build(Header("Picks", 5), Get(report, "stocks", <<>>), TRUE, NoNote)

\* format_pre_open_message, lines 160-164
format_pre_open_message(report) ==
    _build(Header("Pre-Market", 10), Get(report, "stocks", <<>>), TRUE,
           Note("Gift Nifty", 12, report))

\* format_night_message, lines 166-170
format_night_message(report) ==
    _build(Header("Tomorrow Picks", 14), Get(report, "stocks", <<>>), TRUE,
           Note("Nifty est", 11, report))

\* format_weekend_message, lines 172-175
format_weekend_message(report) ==
    _build(Header("Next Week Picks", 15), Get(report, "stocks", <<>>), TRUE, NoNote)

\* the formatter each mode's call site uses (lines 94, 192, 195, 198, 201,
\* 358, 361); hm is the slot of a scheduled mode
format_message(mode, hm, report) ==
    CASE mode \in {"open", "intraday", "closing"} ->
             format_scheduled_message(report, SLOT_LABELS[hm], mode)
      [] mode = "adhoc"    -> format_adhoc_message(report)
      [] mode = "pre_open" -> format_pre_open_message(report)
      [] mode = "night"    -> format_night_message(report)
      [] mode = "weekend"  -> format_weekend_message(report)

\* picks of a report: a JSON object without any field, one with every field
\* (six characters each), one with a very long symbol, and a JSON value that
\* is no object
PickFields == {"symbol", "exchange", "entry_low", "entry_high", "target",
               "stop_loss", "holding_period"}

Picks ==
    { [dict |-> TRUE, fields |-> <<>>],
      [dict |-> TRUE, fields |-> [k \in PickFields |-> 6]],
      [dict |-> TRUE, fields |-> [k \in {"symbol"} |-> 800]],
      [dict |-> FALSE, fields |-> <<>>] }

StockLists == UNION {[1..n -> Picks] : n \in 0..MaxPicks}

\* the JSON objects a generator returns: without any key, with the picks
\* only, with picks and index estimate
Reports ==
    {<<>>}
    \cup {[k \in {"stocks"} |-> s] : s \in StockLists}
    \cup {[k \in {"stocks", "nifty_open_estimate"} |->
             IF k = "stocks" THEN s ELSE 7] : s \in StockLists}

(***************************************************************************)
(* Broadcast (app.py _broadcast): one pass is the list read by get_all,    *)
(* the loop index, and what each delivery attempt did                      *)
(***************************************************************************)
NoPass == [read |-> FALSE, numbers |-> <<>>, i |-> 1, results |-> <<>>,
           targets |-> <<>>, raised |-> FALSE]

\* _broadcast, lines 68-71: numbers = subscribers.get_all()
broadcast_begin(numbers) ==
    [read |-> TRUE, numbers |-> numbers, i |-> 1, results |-> <<>>,
     targets |-> <<>>, raised |-> FALSE]

broadcast_send_unguarded(p, ok) ==
    [p EXCEPT !.i = @ + 1,
              !.results = Append(@, ok),
              !.targets = Append(@, send_to(p.numbers[p.i])),
              !.raised = ~ok]

broadcast_send_reread(p, ok) ==
    [p EXCEPT !.i = @ + 1,
              !.results = Append(@, ok),
              !.targets = Append(@, send_to(p.numbers[p.i])),
              !.numbers = _read(storeFile, FALSE)]

\* _broadcast, lines 72-76: one iteration, the send inside its own try
broadcast_send(p, ok) ==
    [p EXCEPT !.i = @ + 1,
              !.results = Append(@, ok),
              !.targets = Append(@, send_to(p.numbers[p.i]))]

\* _broadcast: the loop has another recipient to go to
broadcast_more(p) == ~p.raised /\ p.i <= Len(p.numbers)

(***************************************************************************)
(* Scheduled alert job (app.py run_scheduled_alert, SCHEDULE) and manual   *)
(* trigger (app.py trigger_alert).  A dispatch only reads the store and    *)
(* shares nothing else with another dispatch, so the model follows one     *)
(* dispatch at a time.                                                     *)
(***************************************************************************)
SCHEDULE == << <<9, 20>>, <<10, 0>>, <<11, 0>>, <<12, 0>>,
               <<13, 0>>, <<14, 0>>, <<14, 30>>, <<15, 0>> >>

Slots == {SCHEDULE[i] : i \in 1..Len(SCHEDULE)}

scheduled_dispatch_noclosing(hour, minute) ==
    IF hour = 9 /\ minute = 20
    THEN [gen |-> "generate_market_open_report", arg |-> 0, mode |-> "open"]
    ELSE [gen |-> "generate_intraday_report", arg |-> hour, mode |-> "intraday"]

\* run_scheduled_alert, lines 85-93: generator, its argument and the mode
scheduled_dispatch(hour, minute) ==
    IF hour = 9 /\ minute = 20
    THEN [gen |-> "generate_market_open_report", arg |-> 0, mode |-> "open"]
    ELSE IF hour = 15
    THEN [gen |-> "generate_closing_report", arg |-> 0, mode |-> "closing"]
    ELSE [gen |-> "generate_intraday_report", arg |-> hour, mode |-> "intraday"]

\* trigger_alert, lines 340-351: mapping; <<>> stands for None
mapping == [open    |-> <<9, 20>>,
            10am    |-> <<10, 0>>,
            11am    |-> <<11, 0>>,
            noon    |-> <<12, 0>>,
            1pm     |-> <<13, 0>>,
            2pm     |-> <<14, 0>>,
            230pm   |-> <<14, 30>>,
            closing |-> <<15, 0>>,
            night   |-> <<>>,
            weekend |-> <<>>]

\* the slot identifiers a caller may put in the URL
TriggerSlots == DOMAIN mapping \cup {"midnight"}

\* trigger_alert, lines 356-364: what a known slot dispatches
trigger_dispatch(slot) ==
    IF slot = "night"
    THEN [gen |-> "generate_next_day_report", arg |-> 0, mode |-> "night"]
    ELSE IF slot = "weekend"
    THEN [gen |-> "generate_weekend_report", arg |-> 0, mode |-> "weekend"]
    ELSE scheduled_dispatch(mapping[slot][1], mapping[slot][2])

\* who catches a generator or formatter exception: run_scheduled_alert's own
\* except (line 96) or, for the direct calls, trigger_alert's (line 366)
caught_by(kind, slot) ==
    IF kind = "trigger" /\ slot \in {"night", "weekend"}
    THEN "trigger_alert" ELSE "run_scheduled_alert"

failed_status_uniform(kind, slot) ==
    IF kind = "scheduled" THEN "returned" ELSE "error_500"

\* what the entry point hands back when no report was broadcast
failed_status(kind, slot) ==
    IF kind = "scheduled" THEN "returned"
    ELSE IF caught_by(kind, slot) = "trigger_alert" THEN "error_500"
    ELSE "triggered"

dispatch_next_always(outcome) == "read"

\* run_scheduled_alert, lines 84-97, trigger_alert, lines 355-368: _broadcast
\* is reached only when the generator and the formatter returned
dispatch_next(outcome) == IF outcome = "report" THEN "read" ELSE "done"

\* what the entry point hands back after _broadcast returned
finished_status(kind) == IF kind = "scheduled" THEN "returned" ELSE "triggered"

IdleJob == [pc |-> "idle", kind |-> "none", slot |-> "none", hm |-> <<>>,
            gen |-> "none", arg |-> 0, mode |-> "none", genCalls |-> 0,
            outcome |-> "none", pass |-> NoPass, reads |-> 0,
            msg |-> <<>>, afterFailed |-> FALSE, status |-> "none"]

\* the scheduler calls run_scheduled_alert(h, m) for a slot of SCHEDULE; the
\* job enters its generator call
SchedFire ==
    /\ job.pc \in {"idle", "done"}
    /\ \E hm \in Slots :
         LET d == scheduled_dispatch(hm[1], hm[2])
         IN  job' = [IdleJob EXCEPT !.pc = "gen", !.kind = "scheduled", !.hm = hm,
                                    !.gen = d.gen, !.arg = d.arg, !.mode = d.mode,
                                    !.genCalls = 1,
                                    !.afterFailed = (job.kind = "scheduled"
                                                     /\ job.outcome \in {"raise", "malformed"})]
    /\ UNCHANGED <<_lock, caller, file0, render, dt, phase, clock, storeFile, req, worker>>

\* trigger_alert, lines 352-364: an unknown slot answers 400, a known one
\* enters its generator call
TriggerReceive ==
    /\ job.pc \in {"idle", "done"}
    /\ \E slot \in TriggerSlots :
         IF slot \notin DOMAIN mapping
         THEN job' = [IdleJob EXCEPT !.pc = "done", !.kind = "trigger",
                                     !.slot = slot, !.status = "error_400"]
         ELSE LET d == trigger_dispatch(slot)
              IN  job' = [IdleJob EXCEPT !.pc = "gen", !.kind = "trigger",
                                         !.slot = slot, !.hm = mapping[slot],
                                         !.gen = d.gen, !.arg = d.arg,
                                         !.mode = d.mode, !.genCalls = 1]
    /\ UNCHANGED <<_lock, caller, file0, render, dt, phase, clock, storeFile, req, worker>>

\* run_scheduled_alert, lines 84-97, and trigger_alert, lines 355-368: the
\* generator call ends; a report is formatted (msg) and goes to _broadcast,
\* anything else is logged by the except that catches it and the entry point
\* returns
DispatchGenerate ==
    /\ job.pc = "gen"
    /\ \E outcome \in GenOutcomes :
         IF dispatch_next(outcome) = "read"
         THEN \E report \in Reports :
                LET out == format_message(job.mode, job.hm, report)
                IN  /\ outcome = "report" => ~out.raised
                    /\ job' = [job EXCEPT !.outcome = outcome, !.pc = "read",
                                          !.msg = out.text]
         ELSE job' = [job EXCEPT !.outcome = outcome, !.pc = "done",
                                 !.status = failed_status(job.kind, job.slot)]
    /\ UNCHANGED <<_lock, caller, file0, render, dt, phase, clock, storeFile, req, worker>>

\* _broadcast, lines 68-71; with nobody to send to, the entry point returns
BroadcastRead ==
    /\ job.pc = "read"
    /\ \E rf \in BOOLEAN :
         LET p == broadcast_begin(get_all(storeFile, rf))
         IN  job' = [job EXCEPT
                       !.pass = p,
                       !.reads = @ + 1,
                       !.pc = IF broadcast_more(p) THEN "loop" ELSE "done",
                       !.status = IF broadcast_more(p) THEN @
                                  ELSE finished_status(job.kind)]
    /\ UNCHANGED <<_lock, caller, file0, render, dt, phase, clock, storeFile, req, worker>>

\* _broadcast, lines 72-76; after the last recipient the entry point returns
BroadcastSend ==
    /\ job.pc = "loop"
    /\ \E ok \in BOOLEAN :
         LET p == broadcast_send(job.pass, ok)
         IN  job' = [job EXCEPT
                       !.pass = p,
                       !.pc = IF broadcast_more(p) THEN "loop" ELSE "done",
                       !.status = IF broadcast_more(p) THEN @
                                  ELSE IF p.raised
                                       THEN failed_status(job.kind, job.slot)
                                       ELSE finished_status(job.kind)]
    /\ UNCHANGED <<_lock, caller, file0, render, dt, phase, clock, storeFile, req, worker>>

(***************************************************************************)
(* Formatter calls on their own                                            *)
(***************************************************************************)
\* the formatter calls of the program: one per scheduled slot, and the four
\* phase formatters
FormatCalls ==
    {[mode |-> scheduled_dispatch(hm[1], hm[2]).mode, hm |-> hm] : hm \in Slots}
    \cup {[mode |-> m, hm |-> <<>>] : m \in {"adhoc", "pre_open", "night", "weekend"}}

NoOut == [raised |-> FALSE, text |-> <<>>, full |-> <<>>]

NoRender == [pc |-> "none", mode |-> "none", hm |-> <<>>, report |-> <<>>,
             out |-> NoOut]

\* one call of a formatter returns (or raises)
FormatCall ==
    /\ render.pc = "call"
    /\ render' = [render EXCEPT
                    !.pc = "done",
                    !.out = format_message(render.mode, render.hm, render.report)]
    /\ UNCHANGED <<_lock, caller, file0, dt, phase, clock, storeFile, req, worker, job>>

(***************************************************************************)
(* Store calls step by step (subscriber_store.py).  A thread of the        *)
(* process (a webhook request, the scheduler, an ad-hoc worker) is inside  *)
(* one call of the single SubscriberStore object; the steps are the        *)
(* statements of the call, interleaved freely with those of other threads. *)
(***************************************************************************)
\* the files the inbound path can leave behind: every duplicate-free list of
\* stored addresses, or a file that no longer parses
StoredAddrs == {Addr1, Addr2}

StoreContents ==
    {[valid |-> FALSE, subs |-> <<>>]} \cup
    {[valid |-> TRUE, subs |-> s] :
        s \in {q \in UNION {[1..n -> StoredAddrs] : n \in 0..Cardinality(StoredAddrs)} :
                 \A i, j \in 1..Len(q) : i # j => q[i] # q[j]}}

MaxCallers == 3

Callers == 1..MaxCallers

\* the calls: add / remove with a number as the call sites pass it, get_all
StoreOps ==
    {[op |-> o, number |-> x] : o \in {"add", "remove"}, x \in StoredAddrs} \cup
    {[op |-> "get_all", number |-> <<>>]}

NoCall == [pc |-> "none", op |-> "none", number |-> <<>>, subs |-> <<>>, ret |-> <<>>]

NoCallers == [t \in Callers |-> NoCall]

lock_free_always(l) == TRUE

\* threading.Lock: `with self._lock` goes on only while no thread holds it
lock_free(l) == l = 0

\* `with self._lock:` entered
Acquire(t) ==
    /\ caller[t].pc = "wait"
    /\ lock_free(_lock)
    /\ _lock' = t
    /\ caller' = [caller EXCEPT ![t].pc = "locked"]
    /\ UNCHANGED <<file0, render, dt, phase, clock, storeFile, req, worker, job>>

\* self._read(), and what the call does with the list: add leaves when the
\* number is there, remove filters it out, get_all returns a copy
Read(t) ==
    /\ caller[t].pc = "locked"
    /\ LET c    == caller[t]
           subs == _read(storeFile, FALSE)
           n    == ReplaceWA(c.number)
       IN  caller' = [caller EXCEPT ![t] =
              CASE c.op = "add" ->
                     IF ~InList(n, subs)
                     THEN [c EXCEPT !.subs = Append(subs, n), !.pc = "open"]
                     ELSE [c EXCEPT !.pc = "release"]
                [] c.op = "remove" ->
                     [c EXCEPT !.subs = Without(subs, n), !.pc = "open"]
                [] c.op = "get_all" ->
                     [c EXCEPT !.ret = subs, !.pc = "release"]]
    /\ UNCHANGED <<_lock, file0, render, dt, phase, clock, storeFile, req, worker, job>>

\* _write: open(STORE_PATH, "w") truncates the file
Open(t) ==
    /\ caller[t].pc = "open"
    /\ storeFile' = [valid |-> FALSE, subs |-> <<>>]
    /\ caller' = [caller EXCEPT ![t].pc = "dump"]
    /\ UNCHANGED <<_lock, file0, render, dt, phase, clock, req, worker, job>>

\* _write: json.dump writes the list, the file is closed
Dump(t) ==
    /\ caller[t].pc = "dump"
    /\ storeFile' = _write(storeFile, caller[t].subs, "ok").file
    /\ caller' = [caller EXCEPT ![t].pc = "release", ![t].subs = <<>>]
    /\ UNCHANGED <<_lock, file0, render, dt, phase, clock, req, worker, job>>

\* the with block is left: the lock is released and the call returns
Release(t) ==
    /\ caller[t].pc = "release"
    /\ _lock' = 0
    /\ caller' = [caller EXCEPT ![t].pc = "done"]
    /\ UNCHANGED <<file0, render, dt, phase, clock, storeFile, req, worker, job>>

\* whatsapp_webhook, lines 244 and 295, in a request thread running beside
\* the dispatch: subscribers.add(from_number), whole under the store's lock
StoreAdd ==
    /\ \E number \in StoredAddrs :
         LET r == add(storeFile, number, FALSE, "ok")
         IN  /\ r.file # storeFile
             /\ storeFile' = r.file
    /\ UNCHANGED <<_lock, caller, file0, render, dt, phase, clock, req, worker, job>>

\* whatsapp_webhook, line 269, in a request thread running beside the
\* dispatch: subscribers.remove(from_number), whole under the store's lock
StoreRemove ==
    /\ \E number \in StoredAddrs :
         LET r == remove(storeFile, number, FALSE, "ok")
         IN  /\ r.file # storeFile
             /\ storeFile' = r.file
    /\ UNCHANGED <<_lock, caller, file0, render, dt, phase, clock, req, worker, job>>

(***************************************************************************)
(* Specifications                                                          *)
(***************************************************************************)
\* the inbound path: webhook requests, their ad-hoc threads, the store
Init ==
    /\ dt = <<0, 0, 0>>
    /\ phase = "unset"
    /\ clock = 1
    /\ storeFile = EmptyFile
    /\ req = IdleReq
    /\ worker = [r \in Workers |-> NoWorker]
    /\ job = IdleJob
    /\ render = NoRender
    /\ _lock = 0
    /\ caller = NoCallers
    /\ file0 = EmptyFile

Next ==
    \/ WebhookReceive
    \/ WebhookStore
    \/ WebhookSend
    \/ _spawn_adhoc
    \/ WebhookReturn
    \/ \E r \in Workers : AdhocStart(r)
    \/ \E r \in Workers : AdhocGenerate(r)
    \/ \E r \in Workers : AdhocSend(r)
    \/ \E r \in Workers : AdhocExit(r)

Spec == Init /\ [][Next]_vars

\* the dispatch path: scheduled firings and manual triggers over a store that
\* inbound requests have filled
InitDispatch ==
    /\ dt = <<0, 0, 0>>
    /\ phase = "unset"
    /\ clock = 1
    /\ storeFile \in StoreContents
    /\ req = IdleReq
    /\ worker = [r \in Workers |-> NoWorker]
    /\ job = IdleJob
    /\ render = NoRender
    /\ _lock = 0
    /\ caller = NoCallers
    /\ file0 = EmptyFile

NextDispatch ==
    \/ SchedFire
    \/ TriggerReceive
    \/ DispatchGenerate
    \/ BroadcastRead
    \/ BroadcastSend

SpecDispatch == InitDispatch /\ [][NextDispatch]_vars

\* the classifier alone, over every timestamp of a week
InitSession ==
    /\ dt \in AllTimes
    /\ phase = "unset"
    /\ clock = 1
    /\ storeFile = EmptyFile
    /\ req = IdleReq
    /\ worker = [r \in Workers |-> NoWorker]
    /\ job = IdleJob
    /\ render = NoRender
    /\ _lock = 0
    /\ caller = NoCallers
    /\ file0 = EmptyFile

Classify ==
    /\ phase = "unset"
    /\ phase' = market_session(dt)
    /\ UNCHANGED <<_lock, caller, file0, render, dt, clock, storeFile, req, worker, job>>

NextSession == Classify

SpecSession == InitSession /\ [][NextSession]_vars

\* the formatters alone, over every report and every call site
InitFormat ==
    /\ dt = <<0, 0, 0>>
    /\ phase = "unset"
    /\ clock = 1
    /\ storeFile = EmptyFile
    /\ req = IdleReq
    /\ worker = [r \in Workers |-> NoWorker]
    /\ job = IdleJob
    /\ render \in {[pc |-> "call", mode |-> c.mode, hm |-> c.hm, report |-> r,
                     out |-> NoOut] : c \in FormatCalls, r \in Reports}
    /\ _lock = 0
    /\ caller = NoCallers
    /\ file0 = EmptyFile

NextFormat == FormatCall

SpecFormat == InitFormat /\ [][NextFormat]_vars

\* the dispatch path with request threads subscribing and unsubscribing
\* while it runs
NextPass ==
    \/ SchedFire
    \/ TriggerReceive
    \/ DispatchGenerate
    \/ BroadcastRead
    \/ BroadcastSend
    \/ StoreAdd
    \/ StoreRemove

SpecPass == InitDispatch /\ [][NextPass]_vars

\* the store alone: each thread issues one call over a file that parses
InitStore ==
    /\ dt = <<0, 0, 0>>
    /\ phase = "unset"
    /\ clock = 1
    /\ storeFile \in {f \in StoreContents : f.valid}
    /\ req = IdleReq
    /\ worker = [r \in Workers |-> NoWorker]
    /\ job = IdleJob
    /\ render = NoRender
    /\ _lock = 0
    /\ caller \in [Callers -> {[NoCall EXCEPT !.pc = "wait", !.op = o.op, !.number = o.number] :
                                 o \in StoreOps}]
    /\ file0 = storeFile

NextStore ==
    \/ \E t \in Callers : Acquire(t)
    \/ \E t \in Callers : Read(t)
    \/ \E t \in Callers : Open(t)
    \/ \E t \in Callers : Dump(t)
    \/ \E t \in Callers : Release(t)

SpecStore == InitStore /\ [][NextStore]_vars


(***************************************************************************)
(* Properties                                                              *)
(***************************************************************************)
Phases == {"pre_open", "market", "post_close", "night", "weekend"}

\* C1: market_session returns exactly one of the five phases for every
\* (weekday, hour, minute): weekend iff Saturday or Sunday; otherwise, with
\* m = hour*60+minute, pre_open iff m < 555, market iff 555 <= m <= 930,
\* post_close iff 931 <= m <= 1080, night iff m > 1080.
C1_SessionPartition ==
    phase # "unset" =>
        LET m  == dt[2] * 60 + dt[3]
            we == dt[1] \in {5, 6}
        IN  /\ phase \in Phases
            /\ (phase = "weekend") <=> we
            /\ (phase = "pre_open") <=> (~we /\ m < 555)
            /\ (phase = "market") <=> (~we /\ 555 <= m /\ m <= 930)
            /\ (phase = "post_close") <=> (~we /\ 931 <= m /\ m <= 1080)
            /\ (phase = "night") <=> (~we /\ m > 1080)

\* Monday 15:30, the inclusive upper edge of the market phase, has been classified
C1_Witness == dt = <<0, 15, 30>> /\ phase = "market"

\* number of entries of a list of booleans equal to b
Count(results, b) == Cardinality({k \in 1..Len(results) : results[k] = b})

\* what a pass has done so far is one attempt, in list order, to each of the
\* first i-1 addresses of the list it read
PassInOrder(p) ==
    /\ Len(p.targets) = p.i - 1
    /\ Len(p.results) = p.i - 1
    /\ p.i - 1 <= Len(p.numbers)
    /\ \A k \in 1..Len(p.targets) : p.targets[k] = send_to(p.numbers[k])

\* a pass that is over has made exactly one attempt to every address it read
PassComplete(p) ==
    /\ PassInOrder(p)
    /\ Len(p.targets) = Len(p.numbers)
    /\ \A k \in 1..Len(p.numbers) :
         Cardinality({j \in 1..Len(p.targets) : p.targets[j] = send_to(p.numbers[k])}) = 1
    /\ Count(p.results, TRUE) = Len(p.numbers) - Count(p.results, FALSE)

\* C2: one _broadcast call over the N subscribers it read makes exactly one
\* delivery attempt to each of them (none when N = 0), whichever attempts fail,
\* N - |F| of them succeed, and it returns normally to its caller.
C2_BroadcastAll ==
    /\ job.pass.read => PassInOrder(job.pass)
    /\ ~job.pass.read => job.pass.targets = <<>>
    /\ (job.pc = "done" /\ job.pass.read) =>
          /\ PassComplete(job.pass)
          /\ ~job.pass.raised
          /\ job.status = finished_status(job.kind)

\* a pass over two subscribers is over: the first delivery failed, the second
\* was still attempted and succeeded
C2_Witness ==
    /\ job.pc = "done"
    /\ Len(job.pass.numbers) = 2
    /\ job.pass.results = <<FALSE, TRUE>>

\* C8: a scheduled firing whose generator (or formatter) raises makes no
\* delivery attempt, reads no subscriber list, calls its generator once, and
\* returns normally to the scheduler; the scheduler can fire again, and the
\* firing that follows calls its own generator once and, on a report,
\* broadcasts to every subscriber it reads.
C8_FailedFiringSkipped ==
    job.kind = "scheduled" =>
        /\ job.genCalls = 1
        /\ job.gen = scheduled_dispatch(job.hm[1], job.hm[2]).gen
        /\ (job.pc = "done" /\ job.outcome # "report") =>
              /\ job.pass = NoPass
              /\ job.reads = 0
              /\ job.status = "returned"
              /\ ENABLED SchedFire
        /\ (job.pc = "done" /\ job.outcome = "report") =>
              /\ job.pass.read
              /\ job.reads = 1
              /\ PassComplete(job.pass)
              /\ job.status = "returned"

\* the firing right after a failed one has broadcast to two subscribers
C8_Witness ==
    /\ job.kind = "scheduled"
    /\ job.afterFailed
    /\ job.pc = "done"
    /\ job.outcome = "report"
    /\ Len(job.pass.numbers) = 2
    /\ Len(job.pass.targets) = 2

\* the generator and mode the specification gives each slot identifier
ExpectedTrigger(slot) ==
    CASE slot = "open"    -> [gen |-> "generate_market_open_report", arg |-> 0, mode |-> "open"]
      [] slot = "10am"    -> [gen |-> "generate_intraday_report", arg |-> 10, mode |-> "intraday"]
      [] slot = "11am"    -> [gen |-> "generate_intraday_report", arg |-> 11, mode |-> "intraday"]
      [] slot = "noon"    -> [gen |-> "generate_intraday_report", arg |-> 12, mode |-> "intraday"]
      [] slot = "1pm"     -> [gen |-> "generate_intraday_report", arg |-> 13, mode |-> "intraday"]
      [] slot = "2pm"     -> [gen |-> "generate_intraday_report", arg |-> 14, mode |-> "intraday"]
      [] slot = "230pm"   -> [gen |-> "generate_intraday_report", arg |-> 14, mode |-> "intraday"]
      [] slot = "closing" -> [gen |-> "generate_closing_report", arg |-> 0, mode |-> "closing"]
      [] slot = "night"   -> [gen |-> "generate_next_day_report", arg |-> 0, mode |-> "night"]
      [] slot = "weekend" -> [gen |-> "generate_weekend_report", arg |-> 0, mode |-> "weekend"]

\* C9: a manual trigger answers only when its dispatch is over: for each of
\* the ten slot identifiers, when the handler has its answer the generator of
\* that slot has been called once in that slot's mode, the subscriber list
\* has been read at most once and exactly one delivery attempt has been made
\* to every address read; when the generator returned a report the list has
\* been read, and the answer is "triggered".
C9_TriggerSynchronous ==
    (job.kind = "trigger" /\ job.slot \in DOMAIN mapping) =>
        /\ job.status # "none" => job.pc = "done"
        /\ job.genCalls = 1
        /\ job.gen = ExpectedTrigger(job.slot).gen
        /\ job.arg = ExpectedTrigger(job.slot).arg
        /\ job.mode = ExpectedTrigger(job.slot).mode
        /\ job.pc = "done" =>
              /\ job.status # "none"
              /\ job.reads <= 1
              /\ PassComplete(job.pass)
        /\ (job.pc = "done" /\ job.outcome = "report") =>
              /\ job.reads = 1
              /\ job.pass.read
              /\ PassComplete(job.pass)
              /\ job.status = "triggered"

\* the "closing" trigger has answered after the closing report went to both
\* subscribers
C9_Witness ==
    /\ job.kind = "trigger"
    /\ job.slot = "closing"
    /\ job.status = "triggered"
    /\ job.gen = "generate_closing_report"
    /\ Len(job.pass.numbers) = 2
    /\ Len(job.pass.targets) = 2

\* a list holds no entry twice
NoDup(s) == \A i, j \in 1..Len(s) : i # j => s[i] # s[j]

\* the subscriber list a successful read of the file gives
Stored(file) == _read(file, FALSE)

\* number of entries of a list equal to x
Entries(s, x) == Cardinality({k \in 1..Len(s) : s[k] = x})

\* the sender's address without the channel prefix
Bare(from) == IF StartsWith(from, WA) THEN SubSeq(from, Len(WA) + 1, Len(from)) ELSE from

\* the handler's store call has returned normally
StoreCallDone == req.pc \in {"send", "spawn", "return"} /\ req.branch # "help" /\ ~req.raised

\* in every state: the subscriber list never holds an address twice; once a
\* start (or any other adding message) from a sender has been processed the
\* list holds exactly one entry for the sender's bare address, whether or not
\* From carried the channel prefix; after a stop it holds none
C3_OneEntry ==
    /\ NoDup(storeFile.subs)
    /\ \A k \in 1..Len(storeFile.subs) : storeFile.subs[k] \in {Addr1, Addr2}
    /\ (StoreCallDone /\ req.branch \in {"subscribe", "adhoc"}) =>
          Entries(Stored(storeFile), Bare(req.from)) = 1
    /\ (StoreCallDone /\ req.branch = "stop") =>
          Entries(Stored(storeFile), Bare(req.from)) = 0

\* in every step: a start from a sender already in the list, and a stop from
\* a sender not in it, leave the list as it was and the handler goes on to its
\* reply, provided the call's own read and write of the file work
C3_NoChangeSteps ==
    [][(req.pc = "store" /\ req'.pc = "send" /\ ~req'.rf
        /\ req'.had = (req.branch # "stop"))
       => Stored(storeFile') = Stored(storeFile)]_vars

\* C3: command routing is idempotent on the subscriber set: the list never
\* holds the same address twice, a start from a sender (with or without the
\* channel prefix) leaves exactly one entry for it however often it is sent,
\* and a stop from an address that is not subscribed leaves the list unchanged
\* and raises nothing.  (File faults inside the store call are the subject of
\* C7 and C10.)
C3_RoutingIdempotent == []C3_OneEntry /\ C3_NoChangeSteps

\* a start from a sender who was already subscribed has been processed, and
\* the list still holds that sender once
C3_Witness ==
    /\ req.branch = "subscribe"
    /\ req.pc = "send"
    /\ req.had
    /\ ~req.rf
    /\ Entries(Stored(storeFile), Bare(req.from)) = 1

\* the wait message and the generator the specification gives each phase
ExpectedWait(p) ==
    CASE p = "market"     -> "wait_market"
      [] p = "pre_open"   -> "wait_pre_open"
      [] p = "post_close" -> "wait_post_close"
      [] p = "night"      -> "wait_night"
      [] p = "weekend"    -> "wait_weekend"

ExpectedAdhoc(p, hour) ==
    CASE p = "market"     -> [gen |-> "generate_adhoc_report", arg |-> hour]
      [] p = "pre_open"   -> [gen |-> "generate_pre_open_report", arg |-> 0]
      [] p = "post_close" -> [gen |-> "generate_next_day_report", arg |-> 0]
      [] p = "night"      -> [gen |-> "generate_next_day_report", arg |-> 0]
      [] p = "weekend"    -> [gen |-> "generate_weekend_report", arg |-> 0]

\* the handler of the request that started ad-hoc thread w still has its locals
HandlerOf(w) == req.w = w /\ req.pc # "done"

\* C4 as claimed: the thread started for a message received at time t calls
\* the generator that the phase of t maps to, with the hour of t.
C4_GeneratorOfReceiptPhase ==
    \A w \in Workers :
        (worker[w].pc = "gen" /\ HandlerOf(w)) =>
            LET e == ExpectedAdhoc(market_session(SampleTimes[req.t]),
                                   SampleTimes[req.t][2])
            IN  worker[w].gen = e.gen /\ worker[w].arg = e.arg

\* C4 as amended: the acknowledgment is the wait message of the phase of the
\* handler's clock reading t; the thread calls, once, the generator that the
\* phase of its own later clock reading t' maps to, with the hour of t'.
C4_GeneratorOfThreadPhase ==
    /\ (req.branch = "adhoc" /\ req.sends > 0) =>
          /\ req.sends = 1
          /\ req.text = ExpectedWait(market_session(SampleTimes[req.t]))
    /\ \A w \in Workers :
          worker[w].pc = "gen" =>
              LET e == ExpectedAdhoc(market_session(SampleTimes[worker[w].t]),
                                     SampleTimes[worker[w].t][2])
              IN  /\ worker[w].gen = e.gen
                  /\ worker[w].arg = e.arg
                  /\ worker[w].genCalls = 1
                  /\ HandlerOf(w) => worker[w].t >= req.t

\* a message acknowledged with the post-close wait message whose thread, started
\* in the same phase, is in generate_next_day_report
C4_Witness ==
    \E w \in Workers :
        /\ worker[w].pc = "gen"
        /\ HandlerOf(w)
        /\ req.text = "wait_post_close"
        /\ worker[w].t = req.t
        /\ worker[w].gen = "generate_next_day_report"

\* C5: the handler of a message that is no command can return as soon as its
\* acknowledgment send and the thread start are done, wherever the thread is.
C5_ReturnNotBlocked ==
    /\ req.pc = "return" => ENABLED WebhookReturn
    /\ (req.pc = "return" /\ req.branch = "adhoc" /\ ~req.raised) =>
          /\ req.sends = 1
          /\ req.w \in Workers
          /\ worker[req.w].pc # "none"

\* the handler has returned while its thread's generator call is outstanding
C5_Witness ==
    /\ req.pc = "done"
    /\ req.w \in Workers
    /\ worker[req.w].pc = "gen"

\* C6: an ad-hoc thread makes no delivery attempt before its generator call is
\* over and exactly one after it, to the requesting address: the formatted
\* report when generator and formatter returned, the apology otherwise; it then
\* ends, and no exception leaves it, whether the generator, the delivery or
\* both fail.
C6_OneFollowUp ==
    \A w \in Workers :
        /\ ~worker[w].escaped
        /\ worker[w].pc \in {"none", "start", "gen", "send"} => worker[w].sends = 0
        /\ worker[w].pc = "send" =>
              /\ worker[w].genCalls = 1
              /\ (worker[w].outcome = "report") <=>
                     (worker[w].reply \in {"adhoc", "pre_open", "night", "weekend"})
              /\ (worker[w].outcome # "report") <=> (worker[w].reply = "apology")
        /\ worker[w].pc = "done" =>
              /\ worker[w].sends = 1
              /\ worker[w].to = WA \o Bare(worker[w].from)
              /\ (worker[w].outcome # "report") <=> (worker[w].reply = "apology")
              /\ ENABLED AdhocExit(w)

\* a thread whose generator raised and whose apology could not be delivered
\* has ended its single attempt
C6_Witness ==
    \E w \in Workers :
        /\ worker[w].pc = "done"
        /\ worker[w].outcome = "raise"
        /\ worker[w].reply = "apology"
        /\ worker[w].sends = 1
        /\ worker[w].delivered = 0

\* C7 as claimed: when the handler of a message with a sender is about to
\* return and no delivery call to the sender has failed, at least one message
\* has been delivered to the sender.
C7_AlwaysSomeReply ==
    (req.pc = "return" /\ req.from # <<>> /\ req.delivered = req.sends) =>
        req.delivered >= 1

\* the subscriber set a reader of the file sees
SubscriberSet(file) == {Stored(file)[k] : k \in 1..Len(Stored(file))}

\* C10 as claimed: an address leaves the subscriber set only in the store
\* call of a stop / unsubscribe from that address.
C10_OnlyStopRemoves ==
    [][\A a \in SubscriberSet(storeFile) \ SubscriberSet(storeFile') :
          req.pc = "store" /\ req.branch = "stop" /\ Bare(req.from) = a]_vars

\* number of stock blocks of a text
Blocks(text) == Cardinality({k \in 1..Len(text) : text[k].part = "block"})

\* the picks of the report a formatter was called with
StocksOf(report) == Get(report, "stocks", <<>>)

\* the number of picks the specification lets each mode render
ExpectedBlocks(mode) == IF mode \in {"night", "weekend"} THEN 4 ELSE 3

\* a is what a slice b[:n] can give: the pieces of b in order, the last one
\* possibly cut short
IsPrefix(a, b) ==
    /\ Len(a) <= Len(b)
    /\ \A k \in 1..Len(a) :
         IF k < Len(a) THEN a[k] = b[k]
         ELSE /\ a[k].len <= b[k].len
              /\ [a[k] EXCEPT !.len = b[k].len] = b[k]

\* C11 as claimed: a message that was formatted and not truncated holds
\* min(n, 3) stock blocks in the same-day and ad-hoc modes and min(n, 4) in
\* the night and weekend modes, n the number of picks of the report, and the
\* blocks are those of the first picks in report order.
C11_BlockCount ==
    (render.pc = "done" /\ ~render.out.raised
     /\ render.out.text = render.out.full
     /\ \A j \in 1..Len(StocksOf(render.report)) : StocksOf(render.report)[j].dict) =>
        LET stocks == StocksOf(render.report)
            k      == Min(Len(stocks), ExpectedBlocks(render.mode))
            text   == render.out.text
        IN  /\ Blocks(text) = k
            /\ \A j \in 1..k : /\ text[j + 1].part = "block"
                               /\ text[j + 1].i = j
                               /\ text[j + 1].src = stocks[j]

\* C12: every formatter returns at most 1590 characters whatever the number
\* of picks and the field lengths; what it returns is a prefix of the
\* untruncated message with the header first and whole; and a report whose
\* optional fields are absent (no key at all, or picks without any field) is
\* formatted without raising.
C12_LengthBounded ==
    render.pc = "done" =>
        LET o      == render.out
            stocks == StocksOf(render.report)
        IN  /\ (\A j \in 1..Len(stocks) : stocks[j].dict) => ~o.raised
            /\ ~o.raised =>
                  /\ TextLen(o.text) <= 1590
                  /\ IsPrefix(o.text, o.full)
                  /\ TextLen(o.full) <= 1590 => o.text = o.full
                  /\ o.text # <<>>
                  /\ o.text[1].part = "header"
                  /\ o.text[1] = o.full[1]

\* a night message over three picks with very long symbols was cut to 1590
\* characters
C12_Witness ==
    /\ render.pc = "done"
    /\ ~render.out.raised
    /\ render.mode = "night"
    /\ TextLen(render.out.full) > 1590
    /\ TextLen(render.out.text) = 1590
    /\ Len(render.out.text) < Len(render.out.full)

\* the generator, argument and mode the specification gives each slot
ExpectedScheduled(hm) ==
    CASE hm = <<9, 20>>  -> [gen |-> "generate_market_open_report", arg |-> 0, mode |-> "open"]
      [] hm = <<15, 0>>  -> [gen |-> "generate_closing_report", arg |-> 0, mode |-> "closing"]
      [] hm \in {<<10, 0>>, <<11, 0>>, <<12, 0>>, <<13, 0>>, <<14, 0>>, <<14, 30>>} ->
            [gen |-> "generate_intraday_report", arg |-> hm[1], mode |-> "intraday"]

\* the stock blocks of a text that carry the holding-period line
BlocksWithHold(text) == {k \in 1..Len(text) : text[k].part = "block" /\ text[k].hold}

\* the stock blocks of a text
BlockSet(text) == {k \in 1..Len(text) : text[k].part = "block"}

\* C13: a scheduled firing of each of the eight slots calls exactly one
\* generator: generate_market_open_report for (9,20), generate_closing_report
\* for (15,0), generate_intraday_report(h) for the six others; the blocks of
\* the message it broadcasts carry the holding-period line unless the mode is
\* intraday, and the messages of the directly triggered night and weekend
\* reports carry it.
C13_SlotGenerator ==
    /\ job.kind = "scheduled" =>
          /\ job.hm \in Slots
          /\ job.genCalls = 1
          /\ job.gen = ExpectedScheduled(job.hm).gen
          /\ job.arg = ExpectedScheduled(job.hm).arg
          /\ job.mode = ExpectedScheduled(job.hm).mode
    /\ (job.pc \in {"read", "loop", "done"} /\ job.outcome = "report") =>
          /\ job.msg # <<>>
          /\ BlocksWithHold(job.msg) =
                (IF job.mode = "intraday" THEN {} ELSE BlockSet(job.msg))

\* the 14:30 firing called generate_intraday_report(14) and has broadcast a
\* message whose blocks have no holding-period line
C13_Witness ==
    /\ job.kind = "scheduled"
    /\ job.hm = <<14, 30>>
    /\ job.pc = "done"
    /\ job.outcome = "report"
    /\ job.gen = "generate_intraday_report"
    /\ job.arg = 14
    /\ BlockSet(job.msg) # {}
    /\ BlocksWithHold(job.msg) = {}
    /\ Len(job.pass.targets) = 2

\* the five subscribe commands of the specification
SubscribeWords == { <<"s", "t", "a", "r", "t">>,
                    <<"s", "u", "b", "s", "c", "r", "i", "b", "e">>,
                    <<"h", "i">>, <<"h", "e", "l", "l", "o">>, <<"h", "e", "y">> }

\* in every state: a body is routed as a subscribe command exactly when,
\* trimmed and lower-cased, it is one of the five words; once the store call
\* of a subscribe command from a sender who was not in the list has returned,
\* the list holds the sender; when its handler is about to return it has made
\* exactly one delivery attempt, of the onboarding text, to the sender, and
\* has started no thread
C14_SubscribeState ==
    /\ req.pc = "idle" =>
          \A Body \in Bodies :
              (cmd_of(Body) \in SubscribeWords) <=> (branch_of(cmd_of(Body)) = "subscribe")
    /\ (req.branch = "subscribe" /\ req.pc = "send" /\ ~req.had) =>
          Entries(Stored(storeFile), Bare(req.from)) = 1
    /\ (req.branch = "subscribe" /\ req.pc = "return" /\ ~req.raised) =>
          /\ Entries(Stored(storeFile), Bare(req.from)) = 1
          /\ req.sends = 1
          /\ req.text = "onboarding"
          /\ req.to = WA \o Bare(req.from)
          /\ req.w = 0

\* in every step of the handler of a subscribe command: no thread is started
\* and no thread moves (so no generator is called on its behalf)
C14_SubscribeSteps ==
    [][(req.branch = "subscribe" /\ req' # req) => worker' = worker]_vars

\* C14: a message whose trimmed, lower-cased body is one of start / subscribe
\* / hi / hello / hey, from an address not yet subscribed, adds the address
\* to the subscriber set, makes exactly one delivery attempt of the
\* onboarding text to the sender, spawns no ad-hoc thread and calls no
\* generator.  (A store call that raises is the subject of C7.)
C14_SubscribeOnboards == []C14_SubscribeState /\ C14_SubscribeSteps

\* the first message, a subscribe command, has been handled: the list holds
\* the sender, the onboarding text was delivered, no thread exists
C14_Witness ==
    /\ req.branch = "subscribe"
    /\ req.pc = "return"
    /\ req.n = 1
    /\ storeFile.subs = <<Bare(req.from)>>
    /\ req.text = "onboarding"
    /\ req.delivered = 1
    /\ \A w \in Workers : worker[w].pc = "none"

\* the orders in which the calls of the threads can be executed one by one
Orders == {p \in [Callers -> Callers] : \A i, j \in Callers : i # j => p[i] # p[j]}

\* the file after the first k calls of order p, each executed whole
RECURSIVE FileAfter(_, _)
FileAfter(p, k) ==
    IF k = 0 THEN file0
    ELSE LET f == FileAfter(p, k - 1)
             c == caller[p[k]]
         IN  CASE c.op = "add"     -> add(f, c.number, FALSE, "ok").file
               [] c.op = "remove"  -> remove(f, c.number, FALSE, "ok").file
               [] c.op = "get_all" -> f

\* executing the calls in order p gives the file as it is now and gives
\* every get_all the list it returned
Sequential(p) ==
    /\ FileAfter(p, MaxCallers) = storeFile
    /\ \A k \in Callers :
          caller[p[k]].op = "get_all" =>
              caller[p[k]].ret = get_all(FileAfter(p, k - 1), FALSE)

AllReturned == \A t \in Callers : caller[t].pc = "done"

\* C15: store operations are atomic against each other.  Under every
\* interleaving of the statements of concurrent add, remove and get_all
\* calls: once all calls have returned, the file and the lists get_all
\* returned are those of executing the calls in some sequential order; two
\* adds of different addresses that no call removes leave both addresses in
\* the list; a thread never reads the file while another call's write is
\* half applied (truncated, not yet dumped).
C15_StoreCallsSerialize ==
    /\ AllReturned => \E p \in Orders : Sequential(p)
    /\ AllReturned =>
          \A t, u \in Callers :
              (/\ caller[t].op = "add" /\ caller[u].op = "add"
               /\ caller[t].number # caller[u].number
               /\ \A v \in Callers : caller[v].op # "remove") =>
                  /\ InList(ReplaceWA(caller[t].number), Stored(storeFile))
                  /\ InList(ReplaceWA(caller[u].number), Stored(storeFile))
    /\ \A t \in Callers : caller[t].pc = "locked" => storeFile.valid
    /\ \A t, u \in Callers :
          (t # u /\ caller[t].pc \in {"locked", "open", "dump", "release"}) =>
              caller[u].pc \in {"wait", "done"}

\* three calls issued together over an empty file have returned: the two adds
\* of different addresses are both in the list and the get_all, which ran
\* between them, returned the list with the first one only
C15_Witness ==
    /\ AllReturned
    /\ file0 = EmptyFile
    /\ \E t, u, v \in Callers :
          /\ caller[t].op = "add" /\ caller[u].op = "add" /\ caller[v].op = "get_all"
          /\ caller[t].number # caller[u].number
          /\ caller[v].ret = <<ReplaceWA(caller[t].number)>>
          /\ storeFile.subs = <<ReplaceWA(caller[t].number), ReplaceWA(caller[u].number)>>

\* in every state: a dispatch has read the list at most once, and the k-th
\* delivery attempt of its pass went to the k-th address of the list read
C16_PassState ==
    /\ job.reads <= 1
    /\ job.pass.read => job.reads = 1
    /\ Len(job.pass.targets) <= Len(job.pass.numbers)
    /\ \A k \in 1..Len(job.pass.targets) :
          job.pass.targets[k] = send_to(job.pass.numbers[k])

\* the read of a pass comes before its first attempt and returns the list
\* stored at that moment (or nothing, when reading fails)
C16_ReadAtStart ==
    [][(job.pc = "read" /\ job' # job) =>
          /\ job.pass.targets = <<>> /\ job'.pass.targets = <<>>
          /\ job'.reads = 1
          /\ job'.pass.numbers \in {Stored(storeFile), <<>>}]_vars

\* while the pass runs, whatever happens to the store, the list it works on
\* stays the one it read
C16_ListHeld ==
    [][job.pc = "loop" =>
          /\ job'.pass.numbers = job.pass.numbers
          /\ job'.reads = job.reads]_vars

\* C16: a broadcast pass reads the subscriber set exactly once, at its
\* start, and every delivery attempt of the pass targets an address that
\* was in the set at that read: a subscribe or unsubscribe processed during
\* the pass does not change its recipients, and an address that was not in
\* the set when the pass started gets no attempt.
C16_PassReadsOnce == []C16_PassState /\ C16_ReadAtStart /\ C16_ListHeld

\* a pass over two subscribers has ended with an attempt to each, although
\* both were unsubscribed while it ran
C16_Witness ==
    /\ job.pc = "done"
    /\ job.reads = 1
    /\ job.pass.numbers = <<Addr1, Addr2>>
    /\ job.pass.targets = <<send_to(Addr1), send_to(Addr2)>>
    /\ storeFile = EmptyFile

\* the eight identifiers of the fixed slots
FixedSlots == DOMAIN mapping \ {"night", "weekend"}

\* a trigger has returned without a report to broadcast
TriggerFailed == job.kind = "trigger" /\ job.pc = "done" /\ job.outcome = "raise"

\* C17: the manual trigger reports its outcome differently across slot
\* kinds.  When the generator raises, a trigger for one of the eight fixed
\* slots answers "triggered" although no delivery attempt was made, one for
\* night or weekend answers 500; an unknown slot answers 400 without a
\* generator call or a delivery attempt.  No message is delivered in any of
\* these cases.
C17_TriggerOutcomes ==
    /\ (TriggerFailed /\ job.slot \in FixedSlots) =>
          /\ job.status = "triggered"
          /\ job.genCalls = 1
    /\ (TriggerFailed /\ job.slot \in {"night", "weekend"}) =>
          /\ job.status = "error_500"
          /\ job.genCalls = 1
    /\ (job.kind = "trigger" /\ job.slot \notin DOMAIN mapping) =>
          /\ job.pc = "done"
          /\ job.status = "error_400"
          /\ job.genCalls = 0
    /\ (TriggerFailed \/ (job.kind = "trigger"
                            /\ job.status \in {"error_400", "error_500"})) =>
          /\ job.reads = 0
          /\ ~job.pass.read
          /\ job.pass.targets = <<>>
          /\ job.pass.results = <<>>

\* the trigger of a fixed slot whose generator raised has answered
\* "triggered" with no attempt made
C17_Witness ==
    /\ TriggerFailed
    /\ job.slot = "closing"
    /\ job.status = "triggered"
    /\ job.pass.targets = <<>>

====
